---- MODULE Spec2Model ----
(***************************************************************************)
(* TranscribeMe: the call pipeline of src/transcribe_me/main.py, the       *)
(* eligibility filter and TwiML of phone_handler.py and the gateway        *)
(* adapters of transcription.py.                                           *)
(*                                                                         *)
(* Strings the code slices or scans (phone numbers, transcripts) are       *)
(* sequences of one-character strings; strings it only passes on (URLs,    *)
(* call SIDs) are TLA+ strings.  Optional[T] is a sequence of length at    *)
(* most one: None is <<>>, a value v is <<v>>.                             *)
(***************************************************************************)
EXTENDS Integers, Sequences, FiniteSets, TLC

VARIABLES
    call_records,   \* main.py:33, dict CallSid -> CallRecord (a reference into heap)
    heap,           \* the CallRecord objects ever constructed, by reference
    transcripts,    \* main.py:34, dict transcript_id -> TranscriptResponse
    tasks,          \* runs of handle_recording_webhook/process_transcription, with their locals
    now,            \* datetime.utcnow(), in half minutes
    uuid_count,     \* number of uuid.uuid4() values drawn so far
    gateway_log,    \* invocations of the external gateways, in order
    response,       \* the response of the request handled last
    phone_number,   \* the argument of a call of the eligibility filter
    is_mobile,      \* the filter's answer for phone_number
    summary_call,   \* the arguments of a generate_summary call and the gateway's outcome
    summary_result  \* what generate_summary returned for summary_call, None before the call

vars == <<call_records, heap, transcripts, tasks, now, uuid_count,
          gateway_log, response, phone_number, is_mobile, summary_call,
          summary_result>>

pipeline_vars == <<call_records, heap, transcripts, tasks, now, uuid_count,
                   gateway_log, response>>

phone_vars == <<phone_number, is_mobile>>

summary_vars == <<summary_call, summary_result>>

-----------------------------------------------------------------------------
(* Bounds of the model *)

MaxCalls == 2
MaxRuns == 2
MaxTicks == 2
MaxPunct == 2
MaxHalfMinutes == 1
MaxTextLen == 3
MaxSummaryBound == 2

-----------------------------------------------------------------------------
(* Python values *)

None == <<>>

Some(v) == <<v>>

Min(a, b) == IF a <= b THEN a ELSE b

\* str.replace(ch, "") for a one-character ch
Remove(s, ch) == SelectSeq(s, LAMBDA c : c # ch)

\* str.startswith(prefix)
startswith(s, prefix) == Len(s) >= Len(prefix) /\ SubSeq(s, 1, Len(prefix)) = prefix

\* s[n:]
SliceFrom(s, n) == SubSeq(s, n + 1, Len(s))

\* s[:n]
SliceTo(s, n) == SubSeq(s, 1, Min(n, Len(s)))

Whitespace == {" ", "\n", "\t", "\r"}

RECURSIVE lstrip(_)
lstrip(s) == IF s # <<>> /\ Head(s) \in Whitespace THEN lstrip(Tail(s)) ELSE s

RECURSIVE rstrip(_)
rstrip(s) == IF s # <<>> /\ s[Len(s)] \in Whitespace THEN rstrip(SubSeq(s, 1, Len(s) - 1)) ELSE s

\* str.strip()
strip(s) == rstrip(lstrip(s))

\* A datetime is the number of half minutes since the service started.
TicksPerMinute == 2

MinutesPerDay == 1440

\* mutant of timedelta_days: a window of no length
timedelta_days_zero(n) == 0

\* timedelta(days=n)
timedelta_days(n) == n * MinutesPerDay * TicksPerMinute

\* strftime('%Y-%m-%d %H:%M UTC'): the datetime cut to its minute
strftime_minute(t) == t - (t % TicksPerMinute)

\* strftime('%Y-%m-%d'): the datetime cut to its day
strftime_date(t) == t - (t % (MinutesPerDay * TicksPerMinute))

-----------------------------------------------------------------------------
(* config.py: Settings *)

base_url == "http://localhost:8000"

transcript_expiry_days == 7

max_call_duration_seconds == 300

allowed_country_codes == << <<"+", "6", "4">> >>

\* twilio_phone_number has no default: it is read from the environment
twilio_phone_number == "TWILIO_PHONE_NUMBER"

-----------------------------------------------------------------------------
(* models.py *)

INITIATED == "initiated"
RECORDING == "recording"
TRANSCRIBING == "transcribing"
FORMATTING == "formatting"
COMPLETED == "completed"
FAILED == "failed"

NOTES == "notes"

\* CallRecord(call_sid, from_number, to_number, status) with the defaults of
\* the other fields; created_at is default_factory=datetime.utcnow
CallRecord(call_sid, from_number, to_number, status) ==
    [call_sid |-> call_sid,
     from_number |-> from_number,
     to_number |-> to_number,
     status |-> status,
     recording_url |-> None,
     raw_transcript |-> None,
     formatted_transcript |-> None,
     transcript_format |-> NOTES,
     transcript_id |-> None,
     sms_sent |-> FALSE,
     created_at |-> now,
     expires_at |-> None,
     error_message |-> None]

\* mutant of TranscriptResponse: the entry is built without its expiry
TranscriptResponse_NoExpiry(id, content, format, created_at, expires_at) ==
    [id |-> id, content |-> content, format |-> format,
     created_at |-> created_at, expires_at |-> None]

\* models.py:48-55
TranscriptResponse(id, content, format, created_at, expires_at) ==
    [id |-> id, content |-> content, format |-> format,
     created_at |-> created_at, expires_at |-> expires_at]

-----------------------------------------------------------------------------
(* phone_handler.py: the eligibility filter *)

NZ == <<"+", "6", "4">>

MobilePrefixes == { <<"2", "1">>, <<"2", "2">>, <<"2", "7">>, <<"2", "9">> }

\* mutant of clean: the closing parenthesis is left in
clean_unbalanced(number) == Remove(Remove(Remove(number, " "), "-"), "(")

\* phone_handler.py:32-37
clean(number) == Remove(Remove(Remove(Remove(number, " "), "-"), "("), ")")

\* mutant of LongEnough: "> 8"
LongEnough_strict(number_without_country) == Len(number_without_country) > 8

\* phone_handler.py:46, the length test on the number without its country code
LongEnough(number_without_country) == Len(number_without_country) >= 8

\* phone_handler.py:40-53, the loop over settings.allowed_country_codes from
\* its i-th element; falling out of the loop returns False
RECURSIVE country_loop(_, _)
country_loop(clean_number, i) ==
    IF i > Len(allowed_country_codes) THEN FALSE
    ELSE LET country_code == allowed_country_codes[i] IN
         IF startswith(clean_number, country_code)
         THEN IF country_code = NZ
              THEN LET number_without_country == SliceFrom(clean_number, 3) IN
                   IF LongEnough(number_without_country)
                   THEN \E p \in MobilePrefixes : startswith(number_without_country, p)
                   ELSE country_loop(clean_number, i + 1)
              ELSE Len(clean_number) >= 10
         ELSE country_loop(clean_number, i + 1)

is_mobile_number(number) == country_loop(clean(number), 1)

-----------------------------------------------------------------------------
(* phone_handler.py: TwiML of an incoming call.  A VoiceResponse is the     *)
(* sequence of its verbs.                                                   *)

RejectionMessage == "Sorry, this service is only available for New Zealand mobile phone numbers. Please call from a New Zealand mobile device."

WelcomeMessage == "Welcome to TranscribeMe! This service is for New Zealand mobile numbers. Please speak your message after the beep. Your call will be transcribed and sent to you via text message. You have up to 5 minutes."

ThanksMessage == "Thank you! Your message has been recorded and will be transcribed shortly. You'll receive a text message with your transcript."

Say(text) == [verb |-> "Say", text |-> text, voice |-> "alice"]

Hangup == [verb |-> "Hangup"]

\* phone_handler.py:103-110
Record ==
    [verb |-> "Record",
     action |-> base_url \o "/webhook/recording",
     method |-> "POST",
     max_length |-> max_call_duration_seconds,
     play_beep |-> TRUE,
     trim |-> "trim-silence",
     recording_status_callback |-> base_url \o "/webhook/recording-status"]

\* phone_handler.py:55-119.  The CallRecord built at lines 83-88 is a local
\* that is dropped on return.
handle_incoming_call(from_number, call_sid) ==
    IF ~ is_mobile_number(from_number)
    THEN << Say(RejectionMessage), Hangup >>
    ELSE << Say(WelcomeMessage), Record, Say(ThanksMessage) >>

-----------------------------------------------------------------------------
(* dict operations *)

EmptyDict == [k \in {} |-> None]

\* mutant of DictSet: the dict is rebuilt with the one entry
DictSet_only(d, k, v) == [x \in {k} |-> v]

DictSet(d, k, v) == [x \in (DOMAIN d) \cup {k} |-> IF x = k THEN v ELSE d[x]]

\* mutant of DictDel: the dict is cleared
DictDel_all(d, k) == [x \in {} |-> None]

\* del d[k]
DictDel(d, k) == [x \in (DOMAIN d) \ {k} |-> d[x]]

-----------------------------------------------------------------------------
(* Inputs *)

CallSids == {"CA1", "CA2"}

MobileCaller == <<"+", "6", "4", "2", "1", "0", "8", "2", "2", "3", "4", "8">>

ForeignCaller == <<"+", "1", "5", "5", "5", "1", "2", "3", "4", "5", "6", "7">>

\* A CallSid names one call, and so one caller: a New Zealand mobile for
\* CA1, a number the filter rejects for CA2.
CallerOf(CallSid) == IF CallSid = "CA1" THEN MobileCaller ELSE ForeignCaller

ServiceNumber == "+64123456789"

\* The class models.CallStatus as a value.
CallStatusEnum == "<enum 'CallStatus'>"

\* What the fourth parameter of handle_voice_webhook can be bound to: over
\* HTTP always the string of the form field ("ringing"); the enumeration
\* only when the coroutine is called in-process.
CallStatusArgs == {"ringing", CallStatusEnum}

\* Each delivered recording-complete event carries its own RecordingUrl:
\* the n-th event that finds a record carries RecordingUrlOf(n).
RecordingUrlOf(n) == <<"https://api.twilio.com/rec", n, ".mp3">>

-----------------------------------------------------------------------------
(* main.py: handle_voice_webhook *)

\* main.py:73, the expression CallStatus.RECORDING.  The parameter
\* CallStatus: str = Form(...) of line 60 shadows the enumeration imported at
\* line 13, so the attribute is looked up on the parameter's value: a str
\* has no attribute RECORDING and the lookup raises AttributeError.
HasRecordingAttribute(CallStatus) == CallStatus = CallStatusEnum

\* main.py:69-74
StoreCallRecord(CallSid, From, To) ==
    /\ heap' = Append(heap, CallRecord(CallSid, From, To, RECORDING))
    /\ call_records' = DictSet(call_records, CallSid, Len(heap) + 1)

\* main.py:54-76
handle_voice_webhook(request, CallSid, From, To, CallStatus) ==
    LET twiml_response == handle_incoming_call(From, CallSid) IN
    IF HasRecordingAttribute(CallStatus)
    THEN /\ Len(heap) < MaxCalls
         /\ StoreCallRecord(CallSid, From, To)
         /\ response' = [op |-> "voice", missing |-> request.missing, key |-> CallSid,
                         id |-> 0, status_code |-> 200,
                         body |-> twiml_response]
         /\ UNCHANGED <<transcripts, tasks, now, uuid_count, gateway_log>>
    ELSE \* AttributeError escapes the handler: 500, nothing stored
         /\ response' = [op |-> "voice", missing |-> request.missing, key |-> CallSid,
                         id |-> 0, status_code |-> 500,
                         body |-> <<>>]
         /\ UNCHANGED <<call_records, heap, transcripts, tasks, now, uuid_count,
                        gateway_log>>

\* mutant of RequiredFields: CallStatus declared with a default
RequiredFields_StatusOptional == {"CallSid", "From", "To"}

\* main.py:57-60: the parameters declared Form(...), which the framework
\* requires in the request body
RequiredFields == {"CallSid", "From", "To", "CallStatus"}

\* main.py:54-61: the request is validated against the declared parameters
\* before the handler body runs; a request that lacks one is answered 422
\* and the body is not entered
post_webhook_voice(CallSid, CallStatus, missing) ==
    IF missing \cap RequiredFields = {}
    THEN handle_voice_webhook([missing |-> missing], CallSid, CallerOf(CallSid),
                              ServiceNumber, CallStatus)
    ELSE /\ response' = [op |-> "voice", missing |-> missing,
                         key |-> IF "CallSid" \in missing THEN "" ELSE CallSid,
                         id |-> 0, status_code |-> 422, body |-> <<>>]
         /\ UNCHANGED <<call_records, heap, transcripts, tasks, now, uuid_count,
                        gateway_log>>

\* a well-formed inbound call event
VoiceWebhook ==
    /\ \E CallSid \in CallSids, CallStatus \in CallStatusArgs :
          post_webhook_voice(CallSid, CallStatus, {})
    /\ UNCHANGED <<phone_vars, summary_vars>>

-----------------------------------------------------------------------------
(* transcription.py: the gateway adapters.  What the external service does  *)
(* is an outcome chosen by the environment: Failure (the call raises, times *)
(* out or the download fails) or the text it replies.                       *)

Failure == [ok |-> FALSE, text |-> <<>>]

Reply(text) == [ok |-> TRUE, text |-> text]

BuyMilk == <<"b", "u", "y", " ", "m", "i", "l", "k">>

\* the formatter's reply as the service sends it, before .strip()
NotesReply == <<"-", " ", "B", "u", "y", " ", "m", "i", "l", "k", "\n">>

\* main.py:134, the bound passed to generate_summary
SmsSummaryLength == 100

\* a transcript longer than the summary bound
LongText == [i \in 1..(SmsSummaryLength + 1) |-> IF i % 5 = 0 THEN " " ELSE "a"]

\* a summary reply that is itself longer than the bound
LongSummaryReply == [i \in 1..(SmsSummaryLength + 2) |-> IF i = 1 THEN " " ELSE "s"]

\* The recordings of the calls are short messages.
SttOutcomes == {Failure, Reply(<<>>), Reply(BuyMilk)}

FormatterOutcomes == {Failure, Reply(NotesReply)}

SummaryOutcomes == {Failure, Reply(LongSummaryReply)}

SmsOutcomes == {Failure, Reply(<<>>)}

\* transcription.py:20-62: the text of the reply, None when anything raises
transcribe_audio(audio_url, outcome) ==
    IF outcome = Failure THEN None ELSE Some(outcome.text)

\* mutant of format_transcript: the reply is dropped and the raw text returned
format_transcript_raw(raw_text, format_type, outcome) == raw_text

\* transcription.py:64-121
format_transcript(raw_text, format_type, outcome) ==
    IF format_type = "raw" THEN raw_text
    ELSE IF outcome = Failure THEN raw_text
    ELSE strip(outcome.text)

\* transcription.py:158, the fallback of generate_summary when the gateway fails
TruncatedSummary(text, max_length) ==
    IF Len(text) > max_length
    THEN SliceTo(text, max_length) \o <<".", ".", ".">>
    ELSE text

\* transcription.py:123-158
generate_summary(text, max_length, outcome) ==
    IF Len(text) <= max_length THEN text
    ELSE IF outcome = Failure THEN TruncatedSummary(text, max_length)
    ELSE SliceTo(strip(outcome.text), max_length)

\* phone_handler.py:121-148: True when messages.create returns, False when it raises
send_sms(to_number, message, outcome) == outcome # Failure

\* main.py:135-142.  The pieces of the f-string in order; "\\n\\n" in the source is a
\* backslash followed by n, twice.
Literal(text) == [part |-> "literal", value |-> text]

Field(name, value) == [part |-> name, value |-> value]

SmsMessage(summary, transcript_id, expires_at) ==
    << Literal("Your transcript is ready!"), Literal("\\n\\n"),
       Literal("Preview: "), Field("summary", summary), Literal("\\n\\n"),
       Literal("Full transcript: "), Literal(base_url), Literal("/transcript/"),
       Field("transcript_id", transcript_id), Literal("\\n\\n"),
       Literal("Expires: "), Field("expires_at", strftime_date(expires_at)) >>

\* mutant of Falsy: "if raw_transcript is None"
Falsy_NoneOnly(raw_transcript) == raw_transcript = None

\* main.py:106, "not raw_transcript": None and the empty string are falsy
Falsy(raw_transcript) == raw_transcript = None \/ raw_transcript = Some(<<>>)

-----------------------------------------------------------------------------
(* main.py: handle_recording_webhook and process_transcription.  The only   *)
(* point where the coroutine yields to the event loop is the download in    *)
(* transcribe_audio (transcription.py:34-35); format_transcript,            *)
(* generate_summary and send_sms are blocking calls.                        *)

\* mutant of Received: the event is answered with an error
Received_error == [status |-> "error"]

\* main.py:98
Received == [status |-> "received"]

LogEntry(run, gateway, arg, result) ==
    [run |-> run, gateway |-> gateway, arg |-> arg, result |-> result]

\* mutant of UpdateOnRecording: the locator of the recording is not stored
UpdateOnRecording_StatusOnly(rec, RecordingUrl) == [rec EXCEPT !.status = TRANSCRIBING]

\* main.py:92-93
UpdateOnRecording(rec, RecordingUrl) ==
    [rec EXCEPT !.recording_url = Some(RecordingUrl), !.status = TRANSCRIBING]

\* main.py:79-96 up to the await of transcription.py:34, and line 98 when
\* the CallSid has no record
RecordingWebhook ==
    /\ \E CallSid \in CallSids :
          LET RecordingUrl == RecordingUrlOf(Len(tasks) + 1) IN
          IF CallSid \in DOMAIN call_records
          THEN LET call_record == call_records[CallSid] IN
               /\ Len(tasks) < MaxRuns
               /\ heap' = [heap EXCEPT ![call_record] =
                              UpdateOnRecording(heap[call_record], RecordingUrl)]
               /\ tasks' = Append(tasks, [call_record |-> call_record,
                                          call_sid |-> CallSid,
                                          audio_url |-> RecordingUrl,
                                          transcript_id |-> None,
                                          pc |-> "await"])
               /\ UNCHANGED <<call_records, transcripts, now, uuid_count,
                              gateway_log, response>>
          ELSE /\ response' = [op |-> "recording", missing |-> {}, key |-> CallSid, id |-> 0,
                               status_code |-> 200, body |-> <<Received>>]
               /\ UNCHANGED <<call_records, heap, transcripts, tasks, now,
                              uuid_count, gateway_log>>
    /\ UNCHANGED <<phone_vars, summary_vars>>

\* mutant of except_Exception: the handler catches nothing
except_nothing(e) == FALSE

\* main.py:151, "except Exception as e": the clause catches every exception
\* raised in the try block of lines 103-149
except_Exception(e) == TRUE

\* mutant of FailRecord: the status is left as it was
FailRecord_StatusKept(rec, error) == [rec EXCEPT !.error_message = Some(error)]

\* main.py:151-154
FailRecord(rec, error) ==
    [rec EXCEPT !.status = FAILED, !.error_message = Some(error)]

\* main.py:109-110
EnterFormatting(rec, raw_transcript) ==
    [rec EXCEPT !.raw_transcript = raw_transcript, !.status = FORMATTING]

\* mutant of CompleteRecord: the status is left as it was
CompleteRecord_StatusKept(rec, formatted_transcript, transcript_id, expires_at, sms_sent) ==
    [rec EXCEPT !.formatted_transcript = Some(formatted_transcript),
                !.transcript_id = Some(transcript_id),
                !.expires_at = Some(expires_at),
                !.sms_sent = sms_sent]

\* main.py:117, 121-122, 146-147
CompleteRecord(rec, formatted_transcript, transcript_id, expires_at, sms_sent) ==
    [rec EXCEPT !.formatted_transcript = Some(formatted_transcript),
                !.transcript_id = Some(transcript_id),
                !.expires_at = Some(expires_at),
                !.sms_sent = sms_sent,
                !.status = COMPLETED]

\* main.py:105-154 from the return of the download on, then main.py:98
process_transcription(run, stt, fmt, summ, sms) ==
    LET call_record == tasks[run].call_record
        rec == heap[call_record]
        raw_transcript == transcribe_audio(tasks[run].audio_url, stt)
        stt_log == Append(gateway_log,
                          LogEntry(run, "speech_to_text", tasks[run].audio_url, raw_transcript))
        \* main.py:107 raises; an exception the try statement does not catch
        \* leaves the coroutine and the recording handler: 500
        escaped == Falsy(raw_transcript) /\ ~ except_Exception("Transcription failed")
    IN
    /\ response' = [op |-> "recording", missing |-> {}, key |-> tasks[run].call_sid, id |-> 0,
                    status_code |-> IF escaped THEN 500 ELSE 200,
                    body |-> IF escaped THEN <<>> ELSE <<Received>>]
    /\ IF Falsy(raw_transcript)
       THEN /\ heap' = IF escaped THEN heap
                       ELSE [heap EXCEPT ![call_record] =
                                FailRecord(rec, "Transcription failed")]
            /\ tasks' = [tasks EXCEPT ![run].pc = "done"]
            /\ gateway_log' = stt_log
            /\ UNCHANGED <<call_records, transcripts, now, uuid_count>>
       ELSE LET formatted_transcript ==
                    format_transcript(raw_transcript[1], rec.transcript_format, fmt)
                transcript_id == uuid_count + 1
                expires_at == now + timedelta_days(transcript_expiry_days)
                summary == generate_summary(formatted_transcript, SmsSummaryLength, summ)
                sms_message == SmsMessage(summary, transcript_id, expires_at)
                sms_sent == send_sms(rec.from_number, sms_message, sms)
                fmt_log == Append(stt_log, LogEntry(run, "formatter", NOTES, fmt))
                sum_log == IF Len(formatted_transcript) > SmsSummaryLength
                           THEN Append(fmt_log,
                                       LogEntry(run, "summary", SmsSummaryLength, summ))
                           ELSE fmt_log
            IN
            /\ heap' = [heap EXCEPT ![call_record] =
                           CompleteRecord(EnterFormatting(rec, raw_transcript),
                                          formatted_transcript, transcript_id,
                                          expires_at, sms_sent)]
            /\ tasks' = [tasks EXCEPT ![run].pc = "done",
                                      ![run].transcript_id = Some(transcript_id)]
            /\ uuid_count' = uuid_count + 1
            /\ transcripts' = DictSet(transcripts, transcript_id,
                                  TranscriptResponse(transcript_id, formatted_transcript,
                                                     rec.transcript_format, rec.created_at,
                                                     Some(expires_at)))
            /\ gateway_log' = Append(sum_log,
                                  LogEntry(run, "notification",
                                           [to |-> rec.from_number, body |-> sms_message],
                                           sms_sent))
            /\ UNCHANGED <<call_records, now>>

\* the download of one run returns or fails and the run goes on to its end
PipelineResumeRun(run) ==
    /\ run \in 1..Len(tasks)
    /\ tasks[run].pc = "await"
    /\ \E stt \in SttOutcomes, fmt \in FormatterOutcomes,
          summ \in SummaryOutcomes, sms \in SmsOutcomes :
          process_transcription(run, stt, fmt, summ, sms)
    /\ UNCHANGED <<phone_vars, summary_vars>>

PipelineResume == \E run \in 1..MaxRuns : PipelineResumeRun(run)

-----------------------------------------------------------------------------
(* main.py: view_transcript and list_calls *)

\* mutant of IsExpired: ">=" for ">"
IsExpired_inclusive(transcript) ==
    transcript.expires_at # None /\ now >= transcript.expires_at[1]

\* main.py:166
IsExpired(transcript) ==
    transcript.expires_at # None /\ now > transcript.expires_at[1]

\* mutant of view_status: no membership test, the lookup of an absent id
\* raises KeyError
view_status_KeyError(transcript_id) ==
    IF transcript_id \notin DOMAIN transcripts THEN 500
    ELSE IF IsExpired(transcripts[transcript_id]) THEN 410
    ELSE 200

\* main.py:157-216: the status code of the read
view_status(transcript_id) ==
    IF transcript_id \notin DOMAIN transcripts THEN 404
    ELSE IF IsExpired(transcripts[transcript_id]) THEN 410
    ELSE 200

\* mutant of view_store: the expired entry is kept
view_store_keep(transcript_id) == transcripts

\* main.py:167: the store after the read
view_store(transcript_id) ==
    IF transcript_id \in DOMAIN transcripts /\ IsExpired(transcripts[transcript_id])
    THEN DictDel(transcripts, transcript_id)
    ELSE transcripts

\* main.py:171-216: what the page shows of the entry
view_body(transcript_id) ==
    IF view_status(transcript_id) = 200
    THEN LET transcript == transcripts[transcript_id] IN
         << [content |-> transcript.content, format |-> transcript.format,
             created_at |-> strftime_minute(transcript.created_at),
             expires_at |-> IF transcript.expires_at # None
                            THEN Some(strftime_minute(transcript.expires_at[1]))
                            ELSE None] >>
    ELSE <<>>

TranscriptIds == 1..MaxRuns

\* main.py:157-216
view_transcript(transcript_id) ==
    /\ response' = [op |-> "transcript", missing |-> {}, key |-> "", id |-> transcript_id,
                    status_code |-> view_status(transcript_id),
                    body |-> view_body(transcript_id)]
    /\ transcripts' = view_store(transcript_id)
    /\ UNCHANGED <<call_records, heap, tasks, now, uuid_count, gateway_log>>

ViewTranscript ==
    /\ \E transcript_id \in TranscriptIds : view_transcript(transcript_id)
    /\ UNCHANGED <<phone_vars, summary_vars>>

\* main.py:219-222: the records the admin read returns, by CallSid
list_calls == [sid \in DOMAIN call_records |-> heap[call_records[sid]]]

ListCalls ==
    /\ response' = [op |-> "admin", missing |-> {}, key |-> "", id |-> 0, status_code |-> 200,
                    body |-> << [calls |-> list_calls] >>]
    /\ UNCHANGED <<call_records, heap, transcripts, tasks, now, uuid_count, gateway_log>>
    /\ UNCHANGED <<phone_vars, summary_vars>>

-----------------------------------------------------------------------------
(* The clock *)

\* A retention window passes.
Tick ==
    /\ now + timedelta_days(transcript_expiry_days)
          <= MaxTicks * timedelta_days(transcript_expiry_days)
    /\ now' = now + timedelta_days(transcript_expiry_days)
    /\ UNCHANGED <<call_records, heap, transcripts, tasks, uuid_count, gateway_log,
                   response>>
    /\ UNCHANGED <<phone_vars, summary_vars>>

-----------------------------------------------------------------------------
(* The service *)

NoResponse == [op |-> "none", missing |-> {}, key |-> "", id |-> 0, status_code |-> 0, body |-> <<>>]

InitPipeline ==
    /\ call_records = EmptyDict
    /\ heap = <<>>
    /\ transcripts = EmptyDict
    /\ tasks = <<>>
    /\ now = 0
    /\ uuid_count = 0
    /\ gateway_log = <<>>
    /\ response = NoResponse

\* before generate_summary is called
NoSummaryCall == [text |-> <<>>, max_length |-> 0, outcome |-> Failure]

InitSummary ==
    /\ summary_call = NoSummaryCall
    /\ summary_result = None

Init ==
    /\ InitPipeline
    /\ phone_number = <<>>
    /\ is_mobile = FALSE
    /\ InitSummary

Next ==
    \/ VoiceWebhook
    \/ RecordingWebhook
    \/ PipelineResume
    \/ ViewTranscript
    \/ ListCalls
    \/ Tick

Spec == Init /\ [][Next]_vars

-----------------------------------------------------------------------------
(* The service with a clock that also advances within the minute *)

\* Half a minute passes.
TickHalfMinute ==
    /\ now % timedelta_days(transcript_expiry_days) < MaxHalfMinutes
    /\ now' = now + 1
    /\ UNCHANGED <<call_records, heap, transcripts, tasks, uuid_count, gateway_log,
                   response>>
    /\ UNCHANGED <<phone_vars, summary_vars>>

NextRead ==
    \/ Next
    \/ TickHalfMinute

SpecRead == Init /\ [][NextRead]_vars

-----------------------------------------------------------------------------
(* The service when every download that was started returns or fails *)

\* transcription.py:35: the awaited download of each run eventually returns
\* or raises, and the event loop then resumes the run
GatewaysReturn == \A run \in 1..MaxRuns : WF_vars(PipelineResumeRun(run))

SpecLive == Init /\ [][Next]_vars /\ GatewaysReturn

-----------------------------------------------------------------------------
(* The service with malformed inbound call events *)

\* the fields an inbound call event may lack
MissingFieldSets ==
    { {"CallSid"}, {"From"}, {"To"}, {"CallStatus"}, {"From", "To", "CallStatus"} }

\* an inbound call event that lacks fields
MalformedVoiceWebhook ==
    /\ \E CallSid \in CallSids, CallStatus \in CallStatusArgs,
          missing \in MissingFieldSets :
          post_webhook_voice(CallSid, CallStatus, missing)
    /\ UNCHANGED <<phone_vars, summary_vars>>

NextBoundary ==
    \/ VoiceWebhook
    \/ MalformedVoiceWebhook
    \/ RecordingWebhook
    \/ PipelineResume

SpecBoundary == Init /\ [][NextBoundary]_vars

-----------------------------------------------------------------------------
(* The eligibility filter on its own: caller identifiers and their          *)
(* formatting variants.                                                     *)

Punctuation == {" ", "-", "(", ")"}

PhoneBases ==
    { <<"+", "6", "4", "2", "1", "0", "8", "2", "2", "3", "4", "8">>,
      <<"+", "6", "4", " ", "2", "1", "-", "0", "8", "2", " ", "2", "3", "4", "8">>,
      <<"+", "6", "4", "(", "2", "1", ")", "0", "8", "2", "2", "3", "4", "8">>,
      <<"+", "6", "4", "2", "1", "0", "8", "2", "2", "3", "4">>,
      <<"+", "6", "4", "2", "1", "0", "8", "2", "2", "3">>,
      <<"+", "6", "4", "2", "2", "1", "2", "3", "4", "5", "6", "7">>,
      <<"+", "6", "4", "2", "7", "1", "2", "3", "4", "5", "6", "7">>,
      <<"+", "6", "4", "2", "9", "1", "2", "3", "4", "5", "6", "7">>,
      <<"+", "6", "4", "1", "2", "3", "4", "5", "6">>,
      <<"+", "6", "4", "0", "9", "1", "2", "3", "4", "5", "6", "7", "8", "9">>,
      <<"+", "1", "5", "5", "5", "1", "2", "3", "4", "5", "6", "7">>,
      <<"0", "2", "1", "0", "8", "2", "2", "3", "4", "8">> }

PunctCount(s) == Len(SelectSeq(s, LAMBDA c : c \in Punctuation))

InsertAt(s, i, c) == SubSeq(s, 1, i) \o <<c>> \o SubSeq(s, i + 1, Len(s))

DeleteAt(s, i) == SubSeq(s, 1, i - 1) \o SubSeq(s, i + 1, Len(s))

\* the caller writes one more punctuation character into the number
InsertPunctuation ==
    /\ PunctCount(phone_number) < MaxPunct
    /\ \E i \in 0..Len(phone_number), c \in Punctuation :
          phone_number' = InsertAt(phone_number, i, c)
    /\ is_mobile' = is_mobile_number(phone_number')
    /\ UNCHANGED <<pipeline_vars, summary_vars>>

\* the caller leaves one punctuation character out
DeletePunctuation ==
    /\ \E i \in 1..Len(phone_number) :
          /\ phone_number[i] \in Punctuation
          /\ phone_number' = DeleteAt(phone_number, i)
    /\ is_mobile' = is_mobile_number(phone_number')
    /\ UNCHANGED <<pipeline_vars, summary_vars>>

InitPhone ==
    /\ InitPipeline
    /\ InitSummary
    /\ phone_number \in PhoneBases
    /\ is_mobile = is_mobile_number(phone_number)

NextPhone ==
    \/ InsertPunctuation
    \/ DeletePunctuation

SpecPhone == InitPhone /\ [][NextPhone]_vars

-----------------------------------------------------------------------------
(* generate_summary on its own: texts, bounds and replies of the summary    *)
(* gateway.                                                                 *)

RECURSIVE TextsOfLength(_)
TextsOfLength(n) ==
    IF n = 0 THEN { <<>> }
    ELSE { Append(t, c) : t \in TextsOfLength(n - 1), c \in {"a", " "} }

\* the texts of at most n characters over a letter and a space
TextsUpTo(n) == UNION { TextsOfLength(k) : k \in 0..n }

\* what the summary gateway does: it raises, or replies a text that may be
\* longer than the bound and may carry surrounding whitespace
SummaryReplies == {Failure} \cup { Reply(t) : t \in TextsUpTo(MaxTextLen) }

InitSummaryCall ==
    /\ InitPipeline
    /\ phone_number = <<>>
    /\ is_mobile = FALSE
    /\ summary_call \in [text : TextsUpTo(MaxTextLen),
                          max_length : 0..MaxSummaryBound,
                          outcome : SummaryReplies]
    /\ summary_result = None

\* transcription.py:123-158
GenerateSummary ==
    /\ summary_result = None
    /\ summary_result' = Some(generate_summary(summary_call.text, summary_call.max_length,
                                               summary_call.outcome))
    /\ UNCHANGED <<summary_call, pipeline_vars, phone_vars>>

NextSummary == GenerateSummary

SpecSummary == InitSummaryCall /\ [][NextSummary]_vars

-----------------------------------------------------------------------------
(* Vocabulary of the properties *)

Terminal(status) == status \in {COMPLETED, FAILED}

Rank(status) ==
    CASE status = INITIATED -> 0
      [] status = RECORDING -> 1
      [] status = TRANSCRIBING -> 2
      [] status = FORMATTING -> 3
      [] status = COMPLETED -> 4
      [] OTHER -> 5

\* a step from status a to status b that the state machine of the spec allows
Forward(a, b) ==
    \/ a = b
    \/ b = FAILED /\ ~ Terminal(a)
    \/ a # FAILED /\ b # FAILED /\ Rank(a) < Rank(b)

\* the record stored under a CallSid
Stored(sid) == heap[call_records[sid]]

\* the gateway invocations a step adds to the log
NewEntries == SubSeq(gateway_log', Len(gateway_log) + 1, Len(gateway_log'))

\* the step in which a pipeline run resumes from the download and runs to its end
ResumeStep(run) == tasks[run].pc = "await" /\ tasks'[run].pc = "done"

\* the entries of the log that a run made at a gateway
EntriesOf(log, run, gateway) ==
    {i \in 1..Len(log) : log[i].run = run /\ log[i].gateway = gateway}

\* the speech-to-text result is None (failure, timeout) or the empty text
NoText(result) == result = None \/ result = Some(<<>>)

HasVerb(body, verb) == \E i \in 1..Len(body) : body[i].verb = verb

\* the transcripts in the store that runs for a CallSid published
PublishedFor(sid) ==
    {id \in DOMAIN transcripts :
        \E run \in 1..Len(tasks) :
            tasks[run].call_sid = sid /\ tasks[run].transcript_id = Some(id)}

-----------------------------------------------------------------------------
(* C1 *)

\* a gateway invocation of the log succeeded: speech-to-text returned text,
\* the formatter and the summary service replied, the SMS was accepted
GatewaySucceeded(entry) ==
    CASE entry.gateway = "speech_to_text" -> ~ NoText(entry.result)
      [] entry.gateway = "notification" -> entry.result = TRUE
      [] OTHER -> entry.result.ok

\* C1: for every call_id, whatever recording-complete events were delivered
\* (sequential or overlapping), when every gateway invocation succeeded the
\* Transcript Store holds at most one Transcript Entry published for that
\* call.
C1_PublishedAtMostOnce ==
    (\A i \in 1..Len(gateway_log) : GatewaySucceeded(gateway_log[i]))
        => \A sid \in CallSids : Cardinality(PublishedFor(sid)) <= 1

-----------------------------------------------------------------------------
(* C2 *)

\* C2: in every step (voice webhook, recording webhook, pipeline stage,
\* transcript read), the state of every stored Call Record either stays,
\* moves forward in INITIATED < RECORDING < TRANSCRIBING < FORMATTING <
\* COMPLETED, or moves from a non-terminal state to FAILED.
C2_StateNeverMovesBackward ==
    [][\A sid \in DOMAIN call_records :
          /\ sid \in DOMAIN call_records'
          /\ Forward(Stored(sid).status, heap'[call_records'[sid]].status)]_vars

-----------------------------------------------------------------------------
(* C3 *)

\* C3: once the record stored for a call_id is COMPLETED or FAILED, no step
\* changes the state stored for that call_id.
C3_TerminalIsFinal ==
    [][\A sid \in DOMAIN call_records :
          Terminal(Stored(sid).status) =>
             /\ sid \in DOMAIN call_records'
             /\ heap'[call_records'[sid]].status = Stored(sid).status]_vars

-----------------------------------------------------------------------------
(* C4 *)

\* C4: when the speech-to-text gateway fails or returns the empty text, the
\* run leaves its Call Record FAILED with a non-empty error, creates no
\* Transcript Entry, and invokes neither the formatter nor the notification
\* gateway (speech-to-text is the only gateway it invoked).
C4_SttFailureFailsClosed ==
    [][\A run \in 1..Len(tasks) :
          (/\ ResumeStep(run)
           /\ Len(NewEntries) >= 1
           /\ NewEntries[1].gateway = "speech_to_text"
           /\ NoText(NewEntries[1].result))
          => LET rec == heap'[tasks[run].call_record] IN
             /\ rec.status = FAILED
             /\ rec.error_message # None
             /\ rec.error_message[1] # ""
             /\ transcripts' = transcripts
             /\ uuid_count' = uuid_count
             /\ tasks'[run].transcript_id = None
             /\ Len(NewEntries) = 1]_vars

\* a run has ended on an empty transcription and its record is FAILED
C4_Witness ==
    \E run \in 1..Len(tasks) :
        /\ tasks[run].pc = "done"
        /\ \E i \in EntriesOf(gateway_log, run, "speech_to_text") :
              gateway_log[i].result = Some(<<>>)
        /\ heap[tasks[run].call_record].status = FAILED

-----------------------------------------------------------------------------
(* C5 *)

BuyMilkNotes == <<"-", " ", "B", "u", "y", " ", "m", "i", "l", "k">>

\* the outcome of the summary gateway among the entries of a step, Failure
\* when the gateway was not invoked
SummaryOutcomeIn(entries) ==
    IF \E i \in 1..Len(entries) : entries[i].gateway = "summary"
    THEN entries[CHOOSE i \in 1..Len(entries) : entries[i].gateway = "summary"].result
    ELSE Failure

\* C5: when the speech-to-text gateway and the formatter both return text,
\* the run leaves its Call Record COMPLETED with raw_text the transcribed
\* text and formatted_text the formatter's text, the Transcript Store holds
\* under the record's transcript_id an entry with that content, and the
\* notification gateway was invoked exactly once, with a message that
\* contains the summary of that content.
C5_SuccessfulRunCompletes ==
    [][\A run \in 1..Len(tasks) :
          (/\ ResumeStep(run)
           /\ Len(NewEntries) >= 2
           /\ NewEntries[1].gateway = "speech_to_text"
           /\ ~ NoText(NewEntries[1].result)
           /\ NewEntries[2].gateway = "formatter"
           /\ NewEntries[2].result # Failure)
          => LET rec == heap'[tasks[run].call_record]
                 text == NewEntries[1].result[1]
                 formatted == strip(NewEntries[2].result.text)
                 sent == {i \in 1..Len(NewEntries) : NewEntries[i].gateway = "notification"}
                 summary == generate_summary(formatted, SmsSummaryLength,
                                             SummaryOutcomeIn(NewEntries))
             IN
             /\ rec.status = COMPLETED
             /\ rec.raw_transcript = Some(text)
             /\ rec.formatted_transcript = Some(formatted)
             /\ rec.transcript_id # None
             /\ rec.transcript_id[1] \in DOMAIN transcripts'
             /\ transcripts'[rec.transcript_id[1]].content = formatted
             /\ Cardinality(sent) = 1
             /\ \A i \in sent :
                   \E j \in 1..Len(NewEntries[i].arg.body) :
                       /\ NewEntries[i].arg.body[j].part = "summary"
                       /\ NewEntries[i].arg.body[j].value = summary]_vars

\* a run transcribed "buy milk", the formatter replied, and the record is
\* COMPLETED with the entry "- Buy milk" in the store
C5_Witness ==
    \E run \in 1..Len(tasks) :
        /\ tasks[run].pc = "done"
        /\ \E i \in EntriesOf(gateway_log, run, "formatter") :
              gateway_log[i].result = Reply(NotesReply)
        /\ EntriesOf(gateway_log, run, "notification") # {}
        /\ heap[tasks[run].call_record].status = COMPLETED
        /\ heap[tasks[run].call_record].raw_transcript = Some(BuyMilk)
        /\ tasks[run].transcript_id # None
        /\ tasks[run].transcript_id[1] \in DOMAIN transcripts
        /\ transcripts[tasks[run].transcript_id[1]].content = BuyMilkNotes

-----------------------------------------------------------------------------
(* C6 *)

\* C6: no Call Record is stored for a caller the eligibility filter rejects.
C6_RejectedCallerHasNoRecord ==
    \A sid \in DOMAIN call_records : is_mobile_number(Stored(sid).from_number)

-----------------------------------------------------------------------------
(* C9 *)

\* C9: the response to an inbound call holds, for an accepted caller, a
\* record instruction (callback <base_url>/webhook/recording, maximum length
\* the configured call duration, silence trimming) and no hangup; for a
\* rejected caller the rejection message and a hangup and no record
\* instruction.
C9_ResponseFollowsFilter ==
    (response.op = "voice" /\ response.missing = {}) =>
        IF is_mobile_number(CallerOf(response.key))
        THEN /\ \E i \in 1..Len(response.body) :
                   /\ response.body[i].verb = "Record"
                   /\ response.body[i].action = "http://localhost:8000/webhook/recording"
                   /\ response.body[i].max_length = max_call_duration_seconds
                   /\ response.body[i].trim = "trim-silence"
             /\ ~ HasVerb(response.body, "Hangup")
        ELSE /\ \E i \in 1..Len(response.body) :
                   /\ response.body[i].verb = "Say"
                   /\ response.body[i].text = RejectionMessage
             /\ HasVerb(response.body, "Hangup")
             /\ ~ HasVerb(response.body, "Record")

-----------------------------------------------------------------------------
(* C10 *)

\* the step that serves a read of transcript id
ReadStep(id) ==
    /\ response' # response
    /\ response'.op = "transcript"
    /\ response'.id = id

\* C10: a read of an id absent from the store returns 404 and changes
\* neither store; a read of a present entry at a time after its expires_at
\* returns 410 and removes the entry; an id that was issued and is absent
\* stays absent, so every later read of it returns 404.
C10_ReadOutcomes ==
    [][\A id \in TranscriptIds :
          /\ (ReadStep(id) /\ id \notin DOMAIN transcripts) =>
                /\ response'.status_code = 404
                /\ UNCHANGED <<transcripts, call_records, heap>>
          /\ (/\ ReadStep(id)
              /\ id \in DOMAIN transcripts
              /\ now > transcripts[id].expires_at[1]) =>
                /\ response'.status_code = 410
                /\ id \notin DOMAIN transcripts'
                /\ \A other \in DOMAIN transcripts \ {id} :
                      other \in DOMAIN transcripts' /\ transcripts'[other] = transcripts[other]
          /\ (id <= uuid_count /\ id \notin DOMAIN transcripts) =>
                id \notin DOMAIN transcripts']_vars

\* an id that was issued is read after its eviction: 404
C10_Witness ==
    /\ response.op = "transcript"
    /\ response.status_code = 404
    /\ response.id <= uuid_count

-----------------------------------------------------------------------------
(* C7 *)

\* the identifier with every space, hyphen and parenthesis removed
Unformatted(s) == SelectSeq(s, LAMBDA c : c \notin Punctuation)

\* starts with "+64", has at least 8 characters after it, and these start
\* with 21, 22, 27 or 29
NzMobile(s) ==
    LET d == Unformatted(s) IN
    /\ Len(d) - 3 >= 8
    /\ d[1] = "+" /\ d[2] = "6" /\ d[3] = "4"
    /\ d[4] = "2"
    /\ d[5] \in {"1", "2", "7", "9"}

\* C7: with accepted prefix "+64" and mobile sub-prefixes 21, 22, 27, 29,
\* the filter accepts a number exactly when, with its formatting removed, it
\* starts with "+64", has at least 8 characters after that and continues
\* with a mobile sub-prefix; "+15551234567", "0210822348", "+64123456" and
\* "+6409123456789" are rejected and "+64 21-082 2348" is accepted.
C7_FilterAcceptsNzMobiles ==
    /\ is_mobile = NzMobile(phone_number)
    /\ ~ is_mobile_number(<<"+", "1", "5", "5", "5", "1", "2", "3", "4", "5", "6", "7">>)
    /\ ~ is_mobile_number(<<"0", "2", "1", "0", "8", "2", "2", "3", "4", "8">>)
    /\ ~ is_mobile_number(<<"+", "6", "4", "1", "2", "3", "4", "5", "6">>)
    /\ ~ is_mobile_number(<<"+", "6", "4", "0", "9", "1", "2", "3", "4", "5", "6", "7", "8", "9">>)
    /\ is_mobile_number(<<"+", "6", "4", " ", "2", "1", "-", "0", "8", "2", " ", "2", "3", "4", "8">>)

\* a number with exactly 8 characters after "+64", written with
\* punctuation, is accepted
C7_Witness ==
    /\ is_mobile
    /\ Len(Unformatted(phone_number)) = 11
    /\ PunctCount(phone_number) >= 1

-----------------------------------------------------------------------------
(* C8 *)

\* C8: inserting or deleting spaces, hyphens and parentheses anywhere in a
\* caller identifier does not change the filter's decision.
C8_FormattingIsIgnored ==
    [][Unformatted(phone_number') = Unformatted(phone_number)
          => is_mobile' = is_mobile]_vars

\* an accepted number that carries a closing parenthesis before its "+"
\* and a space inside its country code
C8_Witness ==
    /\ is_mobile
    /\ Len(phone_number) >= 4
    /\ phone_number[1] = ")"
    /\ phone_number[3] = " "

-----------------------------------------------------------------------------
(* C11 *)

\* the step that serves a read of a present entry at a time now <= expires_at
ReadBeforeExpiry(id) ==
    /\ ReadStep(id)
    /\ id \in DOMAIN transcripts
    /\ now <= transcripts[id].expires_at[1]

\* C11 as stated: every read of a published entry at a time now <=
\* expires_at returns the content, the style and the two timestamps exactly
\* as stored, and leaves the entry in the store.
C11_ReadReturnsEntryAsStored ==
    [][\A id \in TranscriptIds :
          ReadBeforeExpiry(id) =>
             /\ response'.status_code = 200
             /\ response'.body[1].content = transcripts[id].content
             /\ response'.body[1].format = transcripts[id].format
             /\ response'.body[1].created_at = transcripts[id].created_at
             /\ response'.body[1].expires_at = transcripts[id].expires_at
             /\ transcripts' = transcripts]_vars

\* C11 amended: every read of a published entry at a time now <= expires_at
\* (now = expires_at included) returns the content and the style exactly as
\* stored and the two timestamps cut to the minute, and leaves the entry in
\* the store.
C11_ReadReturnsEntryToTheMinute ==
    [][\A id \in TranscriptIds :
          ReadBeforeExpiry(id) =>
             /\ response'.status_code = 200
             /\ response'.body[1].content = transcripts[id].content
             /\ response'.body[1].format = transcripts[id].format
             /\ response'.body[1].created_at
                   = transcripts[id].created_at - (transcripts[id].created_at % TicksPerMinute)
             /\ response'.body[1].expires_at[1]
                   = transcripts[id].expires_at[1] - (transcripts[id].expires_at[1] % TicksPerMinute)
             /\ transcripts' = transcripts]_vars

\* an entry published half a minute into a minute was read at the moment
\* now = expires_at and is still in the store
C11_Witness ==
    /\ response.op = "transcript"
    /\ response.status_code = 200
    /\ response.id \in DOMAIN transcripts
    /\ transcripts[response.id].expires_at = Some(now)
    /\ now % TicksPerMinute = 1
    /\ response.body[1].content = transcripts[response.id].content

-----------------------------------------------------------------------------
(* C12 *)

\* the step in which a run resumes, speech-to-text returns text and the
\* formatter fails
FormatterFailedStep(run) ==
    /\ ResumeStep(run)
    /\ Len(NewEntries) >= 2
    /\ NewEntries[1].gateway = "speech_to_text"
    /\ ~ NoText(NewEntries[1].result)
    /\ NewEntries[2].gateway = "formatter"
    /\ NewEntries[2].result = Failure

\* C12: when the formatter fails after a successful transcription, the run
\* leaves its Call Record COMPLETED with formatted_text equal to raw_text
\* and no error recorded, the entry published under the record's
\* transcript_id has the raw text as content, and the notification gateway
\* was invoked.
C12_FormatterFailureFallsBack ==
    [][\A run \in 1..Len(tasks) :
          FormatterFailedStep(run) =>
             LET rec == heap'[tasks[run].call_record]
                 text == NewEntries[1].result[1]
             IN
             /\ rec.status = COMPLETED
             /\ rec.raw_transcript = Some(text)
             /\ rec.formatted_transcript = Some(text)
             /\ rec.transcript_id # None
             /\ rec.transcript_id[1] \in DOMAIN transcripts'
             /\ transcripts'[rec.transcript_id[1]].content = text
             /\ \E i \in 1..Len(NewEntries) : NewEntries[i].gateway = "notification"
             /\ rec.error_message = None]_vars

-----------------------------------------------------------------------------
(* C13 *)

\* C13: when the notification gateway fails, the run leaves its Call Record
\* FAILED with the failure recorded as its error.
C13_NotificationFailureFails ==
    [][\A run \in 1..Len(tasks) :
          (/\ ResumeStep(run)
           /\ \E i \in 1..Len(NewEntries) :
                 /\ NewEntries[i].gateway = "notification"
                 /\ NewEntries[i].result = FALSE)
          => LET rec == heap'[tasks[run].call_record] IN
             /\ rec.status = FAILED
             /\ rec.error_message # None]_vars

-----------------------------------------------------------------------------
(* C14 *)

\* the step in which a recording-complete event for sid is taken up
Delivered(sid) ==
    /\ Len(tasks') = Len(tasks) + 1
    /\ tasks'[Len(tasks')].call_sid = sid

\* C14: a recording-complete event for a call_id whose Call Record is past
\* RECORDING changes no field of that record, leaves the Transcript Store
\* unchanged and invokes no gateway (no download for speech-to-text is
\* started).
C14_DuplicateDeliveryIsNoOp ==
    [][\A sid \in DOMAIN call_records :
          (Delivered(sid) /\ Stored(sid).status # RECORDING) =>
             /\ heap'[call_records'[sid]] = Stored(sid)
             /\ transcripts' = transcripts
             /\ gateway_log' = gateway_log
             /\ tasks'[Len(tasks')].pc # "await"]_vars

-----------------------------------------------------------------------------
(* C15 *)

\* the step that answers an inbound call event
VoiceStep == response' # response /\ response'.op = "voice"

\* C15: an inbound call event that lacks a required field is answered 422
\* with no TwiML (the eligibility filter is not consulted) and leaves the
\* Call Record Store and the Transcript Store unchanged and starts nothing.
C15_MalformedEventRejected ==
    [][(VoiceStep /\ response'.missing # {}) =>
          /\ response'.status_code = 422
          /\ response'.body = <<>>
          /\ UNCHANGED <<call_records, heap, transcripts, tasks, gateway_log>>]_vars

\* an event with only CallSid was answered 422 while a record for that
\* CallSid is stored and a transcript is published
C15_Witness ==
    /\ response.op = "voice"
    /\ response.missing = {"From", "To", "CallStatus"}
    /\ response.status_code = 422
    /\ response.key \in DOMAIN call_records
    /\ DOMAIN transcripts # {}

-----------------------------------------------------------------------------
(* C16 *)

\* the step in which a voice webhook constructs a CallRecord
RecordCreated == Len(heap') = Len(heap) + 1

\* C16: creating a Call Record for a call_id that is already present leaves
\* the existing record unchanged: a voice webhook never replaces or resets
\* the record stored under a call_id.
C16_ExistingRecordNotReplaced ==
    [][RecordCreated =>
          \A sid \in DOMAIN call_records :
             /\ sid \in DOMAIN call_records'
             /\ heap'[call_records'[sid]] = Stored(sid)]_vars

-----------------------------------------------------------------------------
(* C17 *)

\* C17: whatever the speech-to-text, formatting and notification gateways
\* do, the run returns and the recording-complete handler answers 200 with
\* {"status": "received"}.
C17_NoFailureEscapes ==
    [][\A run \in 1..Len(tasks) :
          ResumeStep(run) =>
             /\ response'.op = "recording"
             /\ response'.key = tasks[run].call_sid
             /\ response'.status_code = 200
             /\ response'.body = <<Received>>]_vars

\* two runs have been acknowledged, one whose transcription failed and one
\* whose formatter and notification both failed
C17_Witness ==
    /\ response.op = "recording"
    /\ response.status_code = 200
    /\ \E i \in 1..Len(gateway_log) :
          gateway_log[i].gateway = "speech_to_text" /\ gateway_log[i].result = None
    /\ \E i, j \in 1..Len(gateway_log) :
          /\ gateway_log[i].run = gateway_log[j].run
          /\ gateway_log[i].gateway = "formatter" /\ gateway_log[i].result = Failure
          /\ gateway_log[j].gateway = "notification" /\ gateway_log[j].result = FALSE

-----------------------------------------------------------------------------
(* C18 *)

\* a step of the processing of call A: its recording-complete event is
\* taken up, or one of its runs resumes and runs to its end
ProcessingStep(A) ==
    \/ Delivered(A)
    \/ \E run \in 1..Len(tasks) : ResumeStep(run) /\ tasks[run].call_sid = A

\* the transcripts in the store that were published for calls other than A
PublishedForOthers(A) ==
    {id \in DOMAIN transcripts :
        \E run \in 1..Len(tasks) :
            tasks[run].call_sid # A /\ tasks[run].transcript_id = Some(id)}

\* C18: a step of the processing of call A, however it ends, changes no
\* field of the Call Record of any other call and removes or alters no
\* Transcript Entry published for another call.
C18_OtherCallsUntouched ==
    [][\A A \in CallSids :
          ProcessingStep(A) =>
             /\ \A B \in DOMAIN call_records \ {A} :
                   /\ B \in DOMAIN call_records'
                   /\ heap'[call_records'[B]] = Stored(B)
             /\ \A id \in PublishedForOthers(A) :
                   /\ id \in DOMAIN transcripts'
                   /\ transcripts'[id] = transcripts[id]]_vars

\* the runs of two different calls have ended, the first with its transcript
\* published and still in the store, the second either way
C18_Witness ==
    /\ Len(tasks) = 2
    /\ tasks[1].call_sid # tasks[2].call_sid
    /\ tasks[1].pc = "done" /\ tasks[2].pc = "done"
    /\ \E r \in {1, 2} :
          /\ tasks[r].transcript_id # None
          /\ tasks[r].transcript_id[1] \in DOMAIN transcripts
          /\ heap[tasks[3 - r].call_record].status = FAILED
          /\ \E i \in EntriesOf(gateway_log, 3 - r, "speech_to_text") :
                \A j \in EntriesOf(gateway_log, r, "notification") : j < i

-----------------------------------------------------------------------------
(* C19 *)

\* C19: for every text, every bound max_length and every outcome of the
\* summary gateway, the summary generate_summary returns has at most
\* max_length characters.
C19_SummaryWithinBound ==
    summary_result # None => Len(summary_result[1]) <= summary_call.max_length

-----------------------------------------------------------------------------
(* C20 *)

\* a blank line between two sections of a text: two newline characters
BlankLine == Literal("\n\n")

\* the parts of the text at positions p1 < p2 are consecutive sections: the
\* only separator between them is one blank line
SeparatedByBlankLine(body, p1, p2) ==
    \E s \in (p1 + 1)..(p2 - 1) :
       /\ body[s] = BlankLine
       /\ \A q \in ((p1 + 1)..(p2 - 1)) \ {s} :
             body[q].part = "literal" /\ body[q] # BlankLine
                                      /\ body[q] # Literal("\\n\\n")

\* the text has the summary, then the URL <base_url>/transcript/<id>, then
\* the expiry date, each section one blank line after the one before
NotificationLayout(body, transcript_id, expires_at) ==
    \E p1, p2, p3 \in 1..Len(body) :
       /\ p1 < p2 /\ p2 + 2 < p3
       /\ body[p1].part = "summary"
       /\ body[p2] = Literal(base_url)
       /\ body[p2 + 1] = Literal("/transcript/")
       /\ body[p2 + 2] = Field("transcript_id", transcript_id)
       /\ body[p3] = Field("expires_at", strftime_date(expires_at))
       /\ SeparatedByBlankLine(body, p1, p2)
       /\ SeparatedByBlankLine(body, p2 + 2, p3)

\* C20: the notification a pipeline run sends is addressed to the caller_id
\* of the run's call, and its text contains, in this order, the summary, the
\* URL <base_url>/transcript/<id> with the transcript_id of the entry the
\* same run published, and the expiry date of that entry, consecutive
\* sections separated by a blank line (two newline characters).
C20_NotificationContent ==
    [][\A run \in 1..Len(tasks) :
          \A i \in 1..Len(NewEntries) :
             (NewEntries[i].run = run /\ NewEntries[i].gateway = "notification")
             => LET sms == NewEntries[i].arg
                    id == tasks'[run].transcript_id
                IN
                /\ sms.to = heap[tasks[run].call_record].from_number
                /\ id # None
                /\ id[1] \in DOMAIN transcripts' \ DOMAIN transcripts
                /\ transcripts'[id[1]].expires_at # None
                /\ NotificationLayout(sms.body, id[1],
                                      transcripts'[id[1]].expires_at[1])]_vars

-----------------------------------------------------------------------------
(* C21 *)

InProgress(status) == status \in {TRANSCRIBING, FORMATTING}

\* C21: when every gateway invocation eventually returns or fails, every
\* Call Record that a recording-complete event put in progress eventually
\* reaches COMPLETED or FAILED: no record stays in TRANSCRIBING or FORMATTING
\* forever.
C21_PipelineTerminates ==
    \A ref \in 1..MaxCalls :
       (ref <= Len(heap) /\ InProgress(heap[ref].status))
          ~> (ref <= Len(heap) /\ Terminal(heap[ref].status))

\* the pipelines of two calls have ended, one COMPLETED and one FAILED
C21_Witness ==
    /\ Len(tasks) = 2
    /\ \A run \in 1..2 : tasks[run].pc = "done"
    /\ tasks[1].call_record # tasks[2].call_record
    /\ {heap[tasks[run].call_record].status : run \in 1..2} = {COMPLETED, FAILED}

-----------------------------------------------------------------------------
(* C22 *)

\* C22: at no time are two pipeline runs in progress for the same call_id.
C22_OneRunPerCall ==
    \A r1, r2 \in 1..Len(tasks) :
       (r1 # r2 /\ tasks[r1].pc = "await" /\ tasks[r2].pc = "await")
          => tasks[r1].call_sid # tasks[r2].call_sid

-----------------------------------------------------------------------------
(* C23 *)

\* the gateways the spec names as suspension points of a pipeline
SuspendingGateways == {"speech_to_text", "formatter", "notification"}

\* the invocations of those gateways by one run that return within a step
ReturnsOf(run) ==
    {i \in 1..Len(NewEntries) :
        NewEntries[i].run = run /\ NewEntries[i].gateway \in SuspendingGateways}

\* C23: a pipeline waiting on its speech-to-text, formatting or notification
\* invocation leaves the event loop to the handlers of other calls until
\* the invocation returns; so no step of the event loop, which runs one
\* coroutine from one suspension to the next, contains the return of two
\* of these invocations of one run.
C23_GatewayWaitsYield ==
    [][\A run \in 1..Len(tasks) : Cardinality(ReturnsOf(run)) <= 1]_vars

-----------------------------------------------------------------------------
(* C24 *)

\* C24: the recording-complete event of a call with a record is acknowledged
\* when it is accepted: the step that starts the pipeline run returns 200
\* "received" for that call while the run is still in progress.
C24_AcknowledgedAtAcceptance ==
    [][\A run \in 1..Len(tasks') :
          run > Len(tasks)
          => /\ tasks'[run].pc = "await"
             /\ response' = [op |-> "recording", missing |-> {},
                             key |-> tasks'[run].call_sid, id |-> 0,
                             status_code |-> 200, body |-> <<Received>>]]_vars

-----------------------------------------------------------------------------
(* C25 *)

\* the invocations of a gateway by a run among those a step adds to the log
StepEntries(run, gateway) ==
    {i \in 1..Len(NewEntries) :
        NewEntries[i].run = run /\ NewEntries[i].gateway = gateway}

\* C25: within one pipeline run the speech-to-text invocation completes
\* before the formatter is invoked, the Transcript Entry is inserted with
\* what the formatter returned, and the Notification Gateway is invoked
\* after the formatter, with a message that names an entry present in the
\* Transcript Store; when speech-to-text returned no text no other gateway
\* is invoked and nothing is inserted.
C25_StagesInOrder ==
    [][\A run \in 1..Len(tasks) :
          LET stt == StepEntries(run, "speech_to_text")
              fmt == StepEntries(run, "formatter")
              sms == StepEntries(run, "notification")
              all == {i \in 1..Len(NewEntries) : NewEntries[i].run = run}
              rec == heap[tasks[run].call_record]
          IN
          /\ all # {} => ResumeStep(run) /\ Cardinality(stt) = 1
          /\ \A i \in stt :
                IF NoText(NewEntries[i].result)
                THEN all = {i} /\ transcripts' = transcripts
                ELSE Cardinality(fmt) = 1 /\ Cardinality(sms) = 1
          /\ \A i \in stt, j \in fmt, k \in sms :
                LET id == tasks'[run].transcript_id IN
                /\ i < j /\ j < k
                /\ id # None
                /\ id[1] \in DOMAIN transcripts' \ DOMAIN transcripts
                /\ transcripts'[id[1]].content =
                      format_transcript(NewEntries[i].result[1], rec.transcript_format,
                                        NewEntries[j].result)
                /\ \E p \in 1..Len(NewEntries[k].arg.body) :
                      NewEntries[k].arg.body[p] = Field("transcript_id", id[1])]_vars

\* a run ended with the three stages behind it, the formatter's reply
\* published, and another run for the same call stopped at speech-to-text
C25_Witness ==
    \E r1, r2 \in 1..Len(tasks) :
       /\ tasks[r1].pc = "done" /\ tasks[r2].pc = "done"
       /\ tasks[r1].call_sid = tasks[r2].call_sid
       /\ tasks[r1].transcript_id # None
       /\ tasks[r1].transcript_id[1] \in DOMAIN transcripts
       /\ transcripts[tasks[r1].transcript_id[1]].content = strip(NotesReply)
       /\ EntriesOf(gateway_log, r1, "notification") # {}
       /\ EntriesOf(gateway_log, r2, "speech_to_text") # {}
       /\ EntriesOf(gateway_log, r2, "formatter") = {}

-----------------------------------------------------------------------------
(* C26 *)

\* C26: a stored Call Record carries an error only in state FAILED.
C26_ErrorOnlyWhenFailed ==
    \A sid \in DOMAIN call_records :
       Stored(sid).error_message # None => Stored(sid).status = FAILED

-----------------------------------------------------------------------------
(* C27 *)

\* C27: once recording_locator, raw_text, formatted_text or transcript_id of
\* the Call Record of a call_id holds a value, no step gives it another.
C27_FieldsWriteOnce ==
    [][\A sid \in DOMAIN call_records :
          LET old == Stored(sid)
              new == heap'[call_records'[sid]]
          IN
          /\ old.recording_url # None => new.recording_url = old.recording_url
          /\ old.raw_transcript # None => new.raw_transcript = old.raw_transcript
          /\ old.formatted_transcript # None
                => new.formatted_transcript = old.formatted_transcript
          /\ old.transcript_id # None => new.transcript_id = old.transcript_id]_vars

-----------------------------------------------------------------------------
(* C28 *)

\* the retention window of the configuration
RetentionWindow == timedelta_days(transcript_expiry_days)

\* C28: every Transcript Entry in the store has expires_at present and
\* strictly greater than its created_at, and the step that publishes an
\* entry gives it expires_at = the time of that step + the retention window.
C28_ExpiryOfEntry ==
    [][/\ \A id \in DOMAIN transcripts' :
             /\ transcripts'[id].expires_at # None
             /\ transcripts'[id].expires_at[1] > transcripts'[id].created_at
       /\ \A id \in DOMAIN transcripts' \ DOMAIN transcripts :
             transcripts'[id].expires_at = Some(now + RetentionWindow)]_vars

\* an entry published a retention window or more after its call was
\* accepted, next to an entry published at once
C28_Witness ==
    \E id1, id2 \in DOMAIN transcripts :
       /\ transcripts[id1].expires_at[1] = transcripts[id1].created_at + RetentionWindow
       /\ transcripts[id2].expires_at[1] > transcripts[id2].created_at + RetentionWindow

-----------------------------------------------------------------------------
(* C29 *)

\* C29: for every published call the expires_at of the Call Record is the
\* created_at of its Transcript Entry plus the retention window.
C29_RecordExpiryFromEntry ==
    \A sid \in DOMAIN call_records :
       LET rec == Stored(sid) IN
       (rec.transcript_id # None /\ rec.transcript_id[1] \in DOMAIN transcripts)
          => rec.expires_at =
                Some(transcripts[rec.transcript_id[1]].created_at + RetentionWindow)

-----------------------------------------------------------------------------
(* C30 *)

\* C30: from its insertion to its eviction a Transcript Entry is unchanged
\* by every step, and it leaves the store only in a read of its id that
\* observes now > expires_at.
C30_EntryImmutable ==
    [][\A id \in DOMAIN transcripts :
          IF id \in DOMAIN transcripts'
          THEN transcripts'[id] = transcripts[id]
          ELSE /\ response'.op = "transcript"
               /\ response'.id = id
               /\ transcripts[id].expires_at # None
               /\ now > transcripts[id].expires_at[1]]_vars

\* two runs for one call published an entry each; the read of the first
\* after its expiry evicted it and left the second, not yet expired
C30_Witness ==
    /\ Len(tasks) = 2
    /\ tasks[1].call_sid = tasks[2].call_sid
    /\ tasks[1].transcript_id # None /\ tasks[2].transcript_id # None
    /\ \E r \in {1, 2} :
          /\ tasks[r].transcript_id[1] \notin DOMAIN transcripts
          /\ response.op = "transcript"
          /\ response.id = tasks[r].transcript_id[1]
          /\ response.status_code = 410
          /\ tasks[3 - r].transcript_id[1] \in DOMAIN transcripts
          /\ now = transcripts[tasks[3 - r].transcript_id[1]].expires_at[1]

-----------------------------------------------------------------------------
(* C31 *)

\* a step in which a read of the transcript id is answered
AnsweredRead(id) ==
    response' # response /\ response'.op = "transcript" /\ response'.id = id

\* C31: reads of one expired transcript id, in whatever order the event
\* loop runs them, never fault: every read is answered 200, 404 or 410; a
\* read answered Expired (410) observed the entry and evicted it; a read
\* that finds the id absent is answered NotFound (404) and leaves the store
\* alone; and an evicted id never comes back, so one read at most is the
\* one that observes the expired entry.
C31_ConcurrentExpiredReads ==
    [][\A id \in TranscriptIds :
          /\ AnsweredRead(id) =>
                /\ response'.status_code \in {200, 404, 410}
                /\ response'.status_code = 410 =>
                      /\ id \in DOMAIN transcripts
                      /\ IsExpired(transcripts[id])
                      /\ id \notin DOMAIN transcripts'
                /\ id \notin DOMAIN transcripts =>
                      /\ response'.status_code = 404
                      /\ transcripts' = transcripts
          /\ (id <= uuid_count /\ id \notin DOMAIN transcripts)
                => id \notin DOMAIN transcripts']_vars

\* the second read of a published id whose first read evicted it
C31_Witness ==
    /\ response.op = "transcript"
    /\ response.status_code = 404
    /\ response.id <= uuid_count
    /\ response.id \notin DOMAIN transcripts

-----------------------------------------------------------------------------
(* C32 *)

\* C32: a recording-complete event for a call_id without a Call Record is
\* acknowledged 200 "received" and changes nothing: no record is created, no
\* pipeline run starts, no gateway is invoked, and both stores stay as
\* they are.
C32_UnknownCallIsNoOp ==
    [][(/\ response' # response
        /\ response'.op = "recording"
        /\ response'.key \notin DOMAIN call_records)
          => /\ response'.status_code = 200
             /\ response'.body = << [status |-> "received"] >>
             /\ UNCHANGED <<call_records, heap, transcripts, tasks, gateway_log,
                            uuid_count>>]_vars

\* the event of an unknown call was acknowledged while the pipeline of
\* another call is waiting for its download
C32_Witness ==
    /\ response.op = "recording"
    /\ response.key \notin DOMAIN call_records
    /\ response.status_code = 200
    /\ \E run \in 1..Len(tasks) : tasks[run].pc = "await"

-----------------------------------------------------------------------------
(* C33 *)

\* C33: a stored Call Record in COMPLETED has recording_locator, raw_text,
\* formatted_text, transcript_id and expires_at set; one in TRANSCRIBING or
\* FAILED has recording_locator set.
C33_FieldsOfState ==
    \A sid \in DOMAIN call_records :
       LET rec == Stored(sid) IN
       /\ rec.status = COMPLETED =>
             /\ rec.recording_url # None
             /\ rec.raw_transcript # None
             /\ rec.formatted_transcript # None
             /\ rec.transcript_id # None
             /\ rec.expires_at # None
       /\ rec.status \in {TRANSCRIBING, FAILED} => rec.recording_url # None

\* the store holds a COMPLETED record and a FAILED record
C33_Witness ==
    \E s1, s2 \in DOMAIN call_records :
       /\ Stored(s1).status = COMPLETED
       /\ Stored(s2).status = FAILED
       /\ Stored(s2).raw_transcript = None

-----------------------------------------------------------------------------
(* C34 *)

\* C34: between the steps of the event loop, for every stored Call Record
\* whose transcript_id names an entry of the Transcript Store, the entry
\* has the record's formatted_text as content, the record's output_style
\* as style and the record's expires_at.
C34_EntryAgreesWithRecord ==
    \A sid \in DOMAIN call_records :
       LET rec == Stored(sid) IN
       (rec.transcript_id # None /\ rec.transcript_id[1] \in DOMAIN transcripts)
          => LET entry == transcripts[rec.transcript_id[1]] IN
             /\ Some(entry.content) = rec.formatted_transcript
             /\ entry.format = rec.transcript_format
             /\ entry.expires_at = rec.expires_at

\* a record whose first run published the formatter's reply and whose
\* second run published the raw text, both entries in the store
C34_Witness ==
    \E sid \in DOMAIN call_records :
       /\ Stored(sid).transcript_id # None
       /\ Cardinality(PublishedFor(sid)) = 2
       /\ Stored(sid).transcript_id[1] \in PublishedFor(sid)
       /\ \E id \in PublishedFor(sid) :
             transcripts[id].content # transcripts[Stored(sid).transcript_id[1]].content

-----------------------------------------------------------------------------
(* C35 *)

\* C35: between the steps of the event loop every stored Call Record is in
\* RECORDING, TRANSCRIBING, COMPLETED or FAILED: INITIATED and FORMATTING
\* are never seen by another handler.
C35_ObservableStates ==
    \A sid \in DOMAIN call_records :
       Stored(sid).status \in {RECORDING, TRANSCRIBING, COMPLETED, FAILED}

\* a run went through FORMATTING to COMPLETED while the run of another
\* call is waiting for its download, and the admin read lists both
C35_Witness ==
    /\ response.op = "admin"
    /\ \E r1, r2 \in 1..Len(tasks) :
          /\ tasks[r1].pc = "done"
          /\ heap[tasks[r1].call_record].status = COMPLETED
          /\ tasks[r2].pc = "await"
          /\ tasks[r2].call_sid # tasks[r1].call_sid
          /\ heap[tasks[r2].call_record].status = TRANSCRIBING

-----------------------------------------------------------------------------
(* C36 *)

\* C36: when a pipeline run ends, the Call Record stored under the run's
\* call_id is in the terminal state the run reached, and when the run
\* published a Transcript Entry the stored record's transcript_id is the
\* id of that entry.
C36_ResultReachesStoredRecord ==
    [][\A run \in 1..Len(tasks) :
          ResumeStep(run)
          => LET stored == heap'[call_records'[tasks[run].call_sid]]
                 written == heap'[tasks[run].call_record]
             IN
             /\ Terminal(stored.status)
             /\ stored.status = written.status
             /\ tasks'[run].transcript_id # None
                   => stored.transcript_id = tasks'[run].transcript_id]_vars

====
